---- MODULE Spec2Model ----
(***************************************************************************)
(* S-curve trajectory followers (UserCode/controllers/                     *)
(* s_curve_traj_follower.c): the single-axis follower and the group        *)
(* follower, their life cycle (Init, SetTarget, Update, Stop, ResetAll,     *)
(* EstimateDuration) and the finished predicate.                           *)
(*                                                                         *)
(* Numbers.  The C code computes in float.  The model computes in integers *)
(* chosen so that every division the code performs is exact: positions and *)
(* velocities are multiples of 12 at the actuators and multiples of 6 in   *)
(* the curve, times are whole numbers of seconds.                          *)
(*                                                                         *)
(* Collaborators.  libs/s_curve, libs/pid_pd and interfaces/motor_if are   *)
(* not part of the two source files; they are modelled after the           *)
(* specification's section 6 (the operators marked "external").            *)
(***************************************************************************)
EXTENDS Integers, Sequences, FiniteSets, TLC

VARIABLES
    kind,       \* which follower the program constructed: "axis" or "group"
    follower,   \* the follower object (SCurveTrajFollower_Axis_t or _Group_t)
    motor,      \* the actuators: handle -> [angle, velocity, ref]
    config,     \* history: the config of the last Init that was accepted
    call,       \* history: the last call, what it returned, what it passed on
    inflight    \* a SetTarget call taken step by step: its position and locals

vars == <<kind, follower, motor, config, call, inflight>>

----------------------------------------------------------------------------
(* Bounds and input domains *)

\* Update is not taken once elapsed time would exceed this (keeps `now` finite).
MaxNow == 4

\* Actuator handles (Motor_VelCtrl_t*).
Motors == 1..2

\* Measured angles (deg) and velocities (deg/s) an actuator can report.
Angles == {0, 12}
Velocities == {0, 24}

\* Targets (deg) the caller asks for.
Targets == {12, 36}

Abs(x) == IF x < 0 THEN -x ELSE x

Sign(x) == IF x < 0 THEN -1 ELSE IF x > 0 THEN 1 ELSE 0

\* ceil(a / b) for a >= 0, b > 0
CeilDiv(a, b) == (a + b - 1) \div b

----------------------------------------------------------------------------
(* deg/s -> rpm: ((dps) / 360.0f * 60.0f).  Every velocity of the model is  *)
(* a multiple of 6, so the quotient is exact.                              *)
DPS2RPM(dps) == (dps * 60) \div 360

\* The float that is not a number, the value of 0.0f / 0.0f; it stands
\* outside every range of values the model computes with.
NaN == -1000

\* a / (float) n for a sum a of n measured values: exact for the values of
\* the model when n > 0; with n = 0 the loop has summed nothing and the
\* quotient is 0 / 0.
FloatDiv(a, n) == IF n = 0 THEN NaN ELSE a \div n

----------------------------------------------------------------------------
(* external: libs/s_curve *)

S_CURVE_SUCCESS == "S_CURVE_SUCCESS"
S_CURVE_FAILED == "S_CURVE_FAILED"

\* SCurve_Reset: the empty / zero profile.
ZeroCurve ==
    [xs |-> 0, xe |-> 0, as |-> 0, vm |-> 0, am |-> 0, total_time |-> 0]

\* The curve SCurve_Init writes from its arguments.  The profile is a
\* simplified one: cruise at vm from xs to xe, for ceil(|xe - xs| / vm).
PlannedCurve(xs, xe, as, vm, am) ==
    [xs |-> xs, xe |-> xe, as |-> as, vm |-> vm, am |-> am,
     total_time |-> IF vm > 0 THEN CeilDiv(Abs(xe - xs), vm) ELSE 0]

\* Synthesis is infeasible when a limit is not positive or the start state
\* already exceeds the limits.
SCurve_Feasible(vs, as, vm, am, jm) ==
    /\ vs # NaN
    /\ vm > 0 /\ am > 0 /\ jm > 0
    /\ Abs(vs) <= vm
    /\ Abs(as) <= am

\* SCurve_Init(s, xs, xe, vs, as, vm, am, jm): the result code and the curves
\* the call may leave in *s.  A failed synthesis may or may not have
\* overwritten *s (old is the prior content).
SCurve_Init(old, xs, xe, vs, as, vm, am, jm) ==
    LET args == [xs |-> xs, xe |-> xe, vs |-> vs, as |-> as,
                 vm |-> vm, am |-> am, jm |-> jm]
    IN IF SCurve_Feasible(vs, as, vm, am, jm)
       THEN [r |-> S_CURVE_SUCCESS, args |-> args,
             s |-> {PlannedCurve(xs, xe, as, vm, am)}]
       ELSE [r |-> S_CURVE_FAILED, args |-> args,
             s |-> IF xs = NaN
                   THEN {old}
                   ELSE {old, [PlannedCurve(xs, xe, as, vm, am)
                                   EXCEPT !.total_time = 0]}]

SCurve_CalcX(s, t) ==
    IF t <= 0 THEN s.xs
    ELSE IF t >= s.total_time THEN s.xe
    ELSE s.xs + Sign(s.xe - s.xs) * s.vm * t

SCurve_CalcV(s, t) ==
    IF t >= s.total_time THEN 0
    ELSE Sign(s.xe - s.xs) * s.vm

SCurve_CalcA(s, t) ==
    IF t <= 0 THEN s.as
    ELSE IF t >= s.total_time THEN 0
    ELSE IF 2 * t < s.total_time THEN Sign(s.xe - s.xs) * s.am
    ELSE IF 2 * t = s.total_time THEN 0
    ELSE -Sign(s.xe - s.xs) * s.am

----------------------------------------------------------------------------
(* external: libs/pid_pd *)

\* memset(&pd, 0, sizeof(pd)): every field of PD_t, gains included.
ZeroPD ==
    [Kp |-> 0, Kd |-> 0, abs_output_max |-> 0,
     ref |-> 0, fdb |-> 0, cur_error |-> 0, output |-> 0]

\* PD_Init(&pd, &cfg): a corrector with the configured gains and no history.
PD_Init(cfg) ==
    [ZeroPD EXCEPT !.Kp = cfg.Kp, !.Kd = cfg.Kd,
                   !.abs_output_max = cfg.abs_output_max]

Clamp(x, m) == IF x > m THEN m ELSE IF x < -m THEN -m ELSE x

\* PD_Calculate(&pd)
PD_Calculate(pd) ==
    LET e == pd.ref - pd.fdb
        u == pd.Kp * e + pd.Kd * (e - pd.cur_error)
    IN [pd EXCEPT !.cur_error = e,
                  !.output = Clamp(u, pd.abs_output_max)]

\* The gain parameters of a corrector, and its transient error-term state.
PD_Gains(pd) == <<pd.Kp, pd.Kd, pd.abs_output_max>>
PD_Transient(pd) == <<pd.ref, pd.fdb, pd.cur_error, pd.output>>

----------------------------------------------------------------------------
(* external: interfaces/motor_if *)

MotorCtrl_GetAngle(m, ctrl) == m[ctrl].angle
MotorCtrl_GetVelocity(m, ctrl) == m[ctrl].velocity
Motor_VelCtrl_SetRef(m, ctrl, rpm) == [m EXCEPT ![ctrl].ref = rpm]
MotorCtrl_ResetAngle(m, ctrl) == [m EXCEPT ![ctrl].angle = 0]

----------------------------------------------------------------------------
(* Configurations the caller passes to Init *)

PDConfigA == [Kp |-> 1, Kd |-> 0, abs_output_max |-> 6]
PDConfigB == [Kp |-> 2, Kd |-> 1, abs_output_max |-> 12]
PDConfigC == [Kp |-> 2, Kd |-> 0, abs_output_max |-> 6]

\* SCurveTrajFollower_AxisConfig_t: two configs Init accepts and one, with
\* update_interval = 0, it rejects.
AxisConfigs ==
    { [update_interval |-> 1, error_pd |-> PDConfigA, motor_vel_ctrl |-> 1,
       v_max |-> 6, a_max |-> 6, j_max |-> 6],
      [update_interval |-> 2, error_pd |-> PDConfigB, motor_vel_ctrl |-> 1,
       v_max |-> 12, a_max |-> 12, j_max |-> 12],
      [update_interval |-> 0, error_pd |-> PDConfigC, motor_vel_ctrl |-> 2,
       v_max |-> 18, a_max |-> 18, j_max |-> 18] }

\* SCurveTrajFollower_GroupConfig_t (items is the caller's array; item_configs
\* is a sequence of SCurveTrajFollower_GroupItem_Config_t): two configs Init
\* accepts, of two items and of one, and one it rejects.
GroupConfigs ==
    { [update_interval |-> 1,
       item_configs |-> << [ctrl |-> 1, error_pd |-> PDConfigA],
                           [ctrl |-> 2, error_pd |-> PDConfigC] >>,
       item_count |-> 2, v_max |-> 12, a_max |-> 12, j_max |-> 12],
      [update_interval |-> 2,
       item_configs |-> << [ctrl |-> 1, error_pd |-> PDConfigC] >>,
       item_count |-> 1, v_max |-> 6, a_max |-> 6, j_max |-> 6],
      [update_interval |-> 0,
       item_configs |-> << [ctrl |-> 2, error_pd |-> PDConfigB] >>,
       item_count |-> 1, v_max |-> 18, a_max |-> 18, j_max |-> 18] }

\* Configs with a negative update_interval, which Init takes as it takes
\* every update_interval other than 0.
NegativeAxisConfig ==
    [update_interval |-> -1, error_pd |-> PDConfigA, motor_vel_ctrl |-> 1,
     v_max |-> 12, a_max |-> 12, j_max |-> 12]

NegativeGroupConfig ==
    [update_interval |-> -1,
     item_configs |-> << [ctrl |-> 1, error_pd |-> PDConfigA] >>,
     item_count |-> 1, v_max |-> 12, a_max |-> 12, j_max |-> 12]

\* A group over no actuator: item_count = 0 and an empty item array, which
\* SCurveTraj_Group_Init takes like any other count.
EmptyGroupConfig ==
    [update_interval |-> 1,
     item_configs |-> << >>,
     item_count |-> 0, v_max |-> 12, a_max |-> 12, j_max |-> 12]

GroupConfigsAnyCount == GroupConfigs \cup {EmptyGroupConfig}

----------------------------------------------------------------------------
(* The follower objects *)

\* SCurveTrajFollower_Axis_t in zero-initialised storage (ctrl 0 is NULL).
ZeroAxis ==
    [running |-> FALSE, update_interval |-> 0, s |-> ZeroCurve, pd |-> ZeroPD,
     ctrl |-> 0, v_max |-> 0, a_max |-> 0, j_max |-> 0, now |-> 0]

\* SCurveTrajFollower_Group_t in zero-initialised storage.
ZeroGroup ==
    [running |-> FALSE, update_interval |-> 0, s |-> ZeroCurve,
     v_max |-> 0, a_max |-> 0, j_max |-> 0,
     items |-> << >>, item_count |-> 0, now |-> 0]

\* Mutant: the finished check without the running flag.
Mut_isFinished_NoRunning(f) == f.now >= f.s.total_time

\* SCurveTraj_isFinished(follower)
SCurveTraj_isFinished(f) == f.running /\ f.now >= f.s.total_time

----------------------------------------------------------------------------
(* AxisFollower.  Each operation is a function of the follower object f    *)
(* and the actuators m, giving the objects after the call.                 *)

\* Mutant: Init without the update_interval check.
Mut_Axis_Init_NoCheck(f, cfg) ==
    [f EXCEPT !.pd = PD_Init(cfg.error_pd),
              !.ctrl = cfg.motor_vel_ctrl,
              !.update_interval = cfg.update_interval,
              !.v_max = cfg.v_max,
              !.a_max = cfg.a_max,
              !.j_max = cfg.j_max,
              !.now = 0,
              !.running = FALSE]

SCurveTraj_Axis_Init(f, cfg) ==
    IF cfg.update_interval = 0
    THEN f
    ELSE [f EXCEPT !.pd = PD_Init(cfg.error_pd),
                   !.ctrl = cfg.motor_vel_ctrl,
                   !.update_interval = cfg.update_interval,
                   !.v_max = cfg.v_max,
                   !.a_max = cfg.a_max,
                   !.j_max = cfg.j_max,
                   !.now = 0,
                   !.running = FALSE]

\* Mutant: the tick that reaches the end of the curve clears running.
Mut_Axis_Update_AutoStop(f, m) ==
    IF ~f.running
    THEN [f |-> f, m |-> m]
    ELSE LET now == f.now + f.update_interval
             ff_velocity == SCurve_CalcV(f.s, now)
             target == SCurve_CalcX(f.s, now)
             pd == PD_Calculate([f.pd EXCEPT !.ref = target,
                                             !.fdb = MotorCtrl_GetAngle(m, f.ctrl)])
             velocity == ff_velocity + pd.output
         IN [f |-> [f EXCEPT !.now = now, !.pd = pd,
                             !.running = now < f.s.total_time],
             m |-> Motor_VelCtrl_SetRef(m, f.ctrl, DPS2RPM(velocity))]

\* Mutant: elapsed time is held at the curve's total duration once reached.
Mut_Axis_Update_Clamp(f, m) ==
    IF ~f.running
    THEN [f |-> f, m |-> m]
    ELSE LET next == f.now + f.update_interval
             now == IF next > f.s.total_time THEN f.s.total_time ELSE next
             ff_velocity == SCurve_CalcV(f.s, now)
             target == SCurve_CalcX(f.s, now)
             pd == PD_Calculate([f.pd EXCEPT !.ref = target,
                                             !.fdb = MotorCtrl_GetAngle(m, f.ctrl)])
             velocity == ff_velocity + pd.output
         IN [f |-> [f EXCEPT !.now = now, !.pd = pd],
             m |-> Motor_VelCtrl_SetRef(m, f.ctrl, DPS2RPM(velocity))]

SCurveTraj_Axis_Update(f, m) ==
    IF ~f.running
    THEN [f |-> f, m |-> m]
    ELSE LET now == f.now + f.update_interval
             ff_velocity == SCurve_CalcV(f.s, now)
             target == SCurve_CalcX(f.s, now)
             pd == PD_Calculate([f.pd EXCEPT !.ref = target,
                                             !.fdb = MotorCtrl_GetAngle(m, f.ctrl)])
             velocity == ff_velocity + pd.output
         IN [f |-> [f EXCEPT !.now = now, !.pd = pd],
             m |-> Motor_VelCtrl_SetRef(m, f.ctrl, DPS2RPM(velocity))]

\* Mutant: ResetAll clears the curve and the corrector but not running.
Mut_Axis_ResetAll_KeepRunning(f, m) ==
    [f |-> [f EXCEPT !.s = ZeroCurve, !.pd = ZeroPD],
     m |-> MotorCtrl_ResetAngle(Motor_VelCtrl_SetRef(m, f.ctrl, 0), f.ctrl)]

SCurveTraj_Axis_ResetAll(f, m) ==
    [f |-> [f EXCEPT !.running = FALSE, !.s = ZeroCurve, !.pd = ZeroPD],
     m |-> MotorCtrl_ResetAngle(Motor_VelCtrl_SetRef(m, f.ctrl, 0), f.ctrl)]

\* Mutant: Stop clears running and the corrector but sends no command.
Mut_Axis_Stop_NoCommand(f, m) ==
    [f |-> [f EXCEPT !.running = FALSE, !.pd = ZeroPD], m |-> m]

SCurveTraj_Axis_Stop(f, m) ==
    [f |-> [f EXCEPT !.running = FALSE, !.pd = ZeroPD],
     m |-> Motor_VelCtrl_SetRef(m, f.ctrl, 0)]

\* Mutant: the start acceleration is chosen by the follower's running flag
\* at the time of synthesis instead of the flag passed in.
Mut_axis_s_curve_init_Flag(old, f, m, running, target) ==
    SCurve_Init(old,
                MotorCtrl_GetAngle(m, f.ctrl),
                target,
                MotorCtrl_GetVelocity(m, f.ctrl),
                IF f.running THEN SCurve_CalcA(f.s, f.now) ELSE 0,
                f.v_max, f.a_max, f.j_max)

\* axis_s_curve_init(s, follower, running, target); old is the content of *s
axis_s_curve_init(old, f, m, running, target) ==
    SCurve_Init(old,
                MotorCtrl_GetAngle(m, f.ctrl),
                target,
                MotorCtrl_GetVelocity(m, f.ctrl),
                IF running THEN SCurve_CalcA(f.s, f.now) ELSE 0,
                f.v_max, f.a_max, f.j_max)

\* Mutant: elapsed time is reset only when the new curve is accepted.
Mut_Axis_SetTarget_ResetOnSuccess(f, m, target) ==
    LET running == f.running
        f1 == [f EXCEPT !.running = FALSE]
        res == axis_s_curve_init(f1.s, f1, m, running, target)
    IN { LET f2 == [f1 EXCEPT !.s = s2]
             st == SCurveTraj_Axis_Stop(f2, m)
         IN IF res.r = S_CURVE_SUCCESS
            THEN [f |-> [f2 EXCEPT !.running = TRUE, !.now = 0], m |-> m,
                  r |-> res.r, args |-> res.args]
            ELSE [f |-> st.f, m |-> st.m, r |-> res.r, args |-> res.args]
         : s2 \in res.s }

\* The outcomes of SetTarget: the objects after the call, the result code
\* and the arguments curve synthesis received.
SCurveTraj_Axis_SetTarget(f, m, target) ==
    LET running == f.running
        f1 == [f EXCEPT !.running = FALSE]
        res == axis_s_curve_init(f1.s, f1, m, running, target)
    IN { LET f2 == [f1 EXCEPT !.s = s2, !.now = 0]
             st == SCurveTraj_Axis_Stop(f2, m)
         IN IF res.r = S_CURVE_SUCCESS
            THEN [f |-> [f2 EXCEPT !.running = TRUE], m |-> m,
                  r |-> res.r, args |-> res.args]
            ELSE [f |-> st.f, m |-> st.m, r |-> res.r, args |-> res.args]
         : s2 \in res.s }

\* Mutant: the estimate always plans from rest (start acceleration 0).
Mut_Axis_EstimateDuration_FromRest(f, m, target) ==
    LET res == axis_s_curve_init(ZeroCurve, f, m, FALSE, target)
    IN { [dur |-> IF res.r # S_CURVE_SUCCESS THEN -1 ELSE temps.total_time,
          r |-> res.r, args |-> res.args] : temps \in res.s }

\* The value EstimateDuration returns and the arguments curve synthesis
\* received; temps is a local, the follower is const.
SCurveTraj_Axis_EstimateDuration(f, m, target) ==
    LET res == axis_s_curve_init(ZeroCurve, f, m, f.running, target)
    IN { [dur |-> IF res.r # S_CURVE_SUCCESS THEN -1 ELSE temps.total_time,
          r |-> res.r, args |-> res.args] : temps \in res.s }

----------------------------------------------------------------------------
(* GroupFollower.  The for loops over items[0 .. item_count-1] are the     *)
(* recursive operators below, i running over 1 .. item_count.              *)

SCurveTraj_Group_Init(f, cfg) ==
    IF cfg.update_interval = 0
    THEN f
    ELSE [f EXCEPT !.items = [i \in 1..cfg.item_count |->
                                 [ctrl |-> cfg.item_configs[i].ctrl,
                                  pd |-> PD_Init(cfg.item_configs[i].error_pd)]],
                   !.item_count = cfg.item_count,
                   !.update_interval = cfg.update_interval,
                   !.v_max = cfg.v_max,
                   !.a_max = cfg.a_max,
                   !.j_max = cfg.j_max,
                   !.now = 0,
                   !.running = FALSE]

\* Mutant: every item's corrector is fed the first item's measured position.
RECURSIVE Mut_Group_UpdateLoop_FirstFdb(_, _, _, _, _)
Mut_Group_UpdateLoop_FirstFdb(f, m, i, ff_velocity, target) ==
    IF i > f.item_count
    THEN [f |-> f, m |-> m]
    ELSE LET pd == PD_Calculate([f.items[i].pd EXCEPT
                                     !.ref = target,
                                     !.fdb = MotorCtrl_GetAngle(m, f.items[1].ctrl)])
             velocity == ff_velocity + pd.output
         IN Mut_Group_UpdateLoop_FirstFdb(
                [f EXCEPT !.items[i].pd = pd],
                Motor_VelCtrl_SetRef(m, f.items[i].ctrl, DPS2RPM(velocity)),
                i + 1, ff_velocity, target)

RECURSIVE Group_UpdateLoop(_, _, _, _, _)
Group_UpdateLoop(f, m, i, ff_velocity, target) ==
    IF i > f.item_count
    THEN [f |-> f, m |-> m]
    ELSE LET pd == PD_Calculate([f.items[i].pd EXCEPT
                                     !.ref = target,
                                     !.fdb = MotorCtrl_GetAngle(m, f.items[i].ctrl)])
             velocity == ff_velocity + pd.output
         IN Group_UpdateLoop([f EXCEPT !.items[i].pd = pd],
                             Motor_VelCtrl_SetRef(m, f.items[i].ctrl, DPS2RPM(velocity)),
                             i + 1, ff_velocity, target)

\* Mutant: the curve is evaluated at the elapsed time before the advance.
Mut_Group_Update_OldTime(f, m) ==
    IF ~f.running
    THEN [f |-> f, m |-> m]
    ELSE LET now == f.now + f.update_interval
             ff_velocity == SCurve_CalcV(f.s, f.now)
             target == SCurve_CalcX(f.s, f.now)
         IN Group_UpdateLoop([f EXCEPT !.now = now], m, 1, ff_velocity, target)

SCurveTraj_Group_Update(f, m) ==
    IF ~f.running
    THEN [f |-> f, m |-> m]
    ELSE LET now == f.now + f.update_interval
             ff_velocity == SCurve_CalcV(f.s, now)
             target == SCurve_CalcX(f.s, now)
         IN Group_UpdateLoop([f EXCEPT !.now = now], m, 1, ff_velocity, target)

\* Mutant: the ResetAll loop clears the correctors and re-homes the actuators
\* but leaves their velocity command as it is.
RECURSIVE Mut_Group_ResetAllLoop_NoCommand(_, _, _)
Mut_Group_ResetAllLoop_NoCommand(f, m, i) ==
    IF i > f.item_count
    THEN [f |-> f, m |-> m]
    ELSE Mut_Group_ResetAllLoop_NoCommand(
             [f EXCEPT !.items[i].pd = ZeroPD],
             MotorCtrl_ResetAngle(m, f.items[i].ctrl),
             i + 1)

RECURSIVE Group_ResetAllLoop(_, _, _)
Group_ResetAllLoop(f, m, i) ==
    IF i > f.item_count
    THEN [f |-> f, m |-> m]
    ELSE Group_ResetAllLoop(
             [f EXCEPT !.items[i].pd = ZeroPD],
             MotorCtrl_ResetAngle(Motor_VelCtrl_SetRef(m, f.items[i].ctrl, 0),
                                  f.items[i].ctrl),
             i + 1)

SCurveTraj_Group_ResetAll(f, m) ==
    Group_ResetAllLoop([f EXCEPT !.running = FALSE, !.s = ZeroCurve], m, 1)

RECURSIVE Group_StopLoop(_, _, _)
Group_StopLoop(f, m, i) ==
    IF i > f.item_count
    THEN [f |-> f, m |-> m]
    ELSE Group_StopLoop([f EXCEPT !.items[i].pd = ZeroPD],
                        Motor_VelCtrl_SetRef(m, f.items[i].ctrl, 0),
                        i + 1)

\* Mutant: Stop also rewinds elapsed time.
Mut_Group_Stop_Rewind(f, m) ==
    Group_StopLoop([f EXCEPT !.running = FALSE, !.now = 0], m, 1)

SCurveTraj_Group_Stop(f, m) ==
    Group_StopLoop([f EXCEPT !.running = FALSE], m, 1)

\* The sums group_s_curve_init accumulates over the items.
RECURSIVE Group_SumAngle(_, _, _)
Group_SumAngle(f, m, i) ==
    IF i > f.item_count THEN 0
    ELSE MotorCtrl_GetAngle(m, f.items[i].ctrl) + Group_SumAngle(f, m, i + 1)

RECURSIVE Group_SumVelocity(_, _, _)
Group_SumVelocity(f, m, i) ==
    IF i > f.item_count THEN 0
    ELSE MotorCtrl_GetVelocity(m, f.items[i].ctrl) + Group_SumVelocity(f, m, i + 1)

\* group_s_curve_init(s, follower, running, target); old is the content of *s
group_s_curve_init(old, f, m, running, target) ==
    LET start_position == FloatDiv(Group_SumAngle(f, m, 1), f.item_count)
        start_velocity == FloatDiv(Group_SumVelocity(f, m, 1), f.item_count)
    IN SCurve_Init(old,
                   start_position,
                   target,
                   start_velocity,
                   IF running THEN SCurve_CalcA(f.s, f.now) ELSE 0,
                   f.v_max, f.a_max, f.j_max)

\* Mutant: a failed synthesis restores the prior running flag instead of
\* stopping (the line left commented out in the source).
Mut_Group_SetTarget_Restore(f, m, target) ==
    LET running == f.running
        f1 == [f EXCEPT !.running = FALSE]
        res == group_s_curve_init(f1.s, f1, m, running, target)
    IN { LET f2 == [f1 EXCEPT !.s = s2, !.now = 0]
         IN IF res.r = S_CURVE_SUCCESS
            THEN [f |-> [f2 EXCEPT !.running = TRUE], m |-> m,
                  r |-> res.r, args |-> res.args]
            ELSE [f |-> [f2 EXCEPT !.running = running], m |-> m,
                  r |-> res.r, args |-> res.args]
         : s2 \in res.s }

SCurveTraj_Group_SetTarget(f, m, target) ==
    LET running == f.running
        f1 == [f EXCEPT !.running = FALSE]
        res == group_s_curve_init(f1.s, f1, m, running, target)
    IN { LET f2 == [f1 EXCEPT !.s = s2, !.now = 0]
             st == SCurveTraj_Group_Stop(f2, m)
         IN IF res.r = S_CURVE_SUCCESS
            THEN [f |-> [f2 EXCEPT !.running = TRUE], m |-> m,
                  r |-> res.r, args |-> res.args]
            ELSE [f |-> st.f, m |-> st.m, r |-> res.r, args |-> res.args]
         : s2 \in res.s }

SCurveTraj_Group_EstimateDuration(f, m, target) ==
    LET res == group_s_curve_init(ZeroCurve, f, m, f.running, target)
    IN { [dur |-> IF res.r # S_CURVE_SUCCESS THEN -1 ELSE temps.total_time,
          r |-> res.r, args |-> res.args] : temps \in res.s }

----------------------------------------------------------------------------
(* The program: one follower, constructed by a valid Init on zeroed        *)
(* storage, then any sequence of calls from the control loop, one at a     *)
(* time, while the actuators move.                                         *)

\* The record of a call: its name, its argument (Init's update_interval),
\* the result code, the duration returned, the arguments given to synthesis
\* (xe is the target).
Called(op, arg, r, dur, args) ==
    [op |-> op, arg |-> arg, r |-> r, dur |-> dur, args |-> args]

NoArgs == [xs |-> 0, xe |-> 0, vs |-> 0, as |-> 0, vm |-> 0, am |-> 0, jm |-> 0]

\* No SetTarget call is in progress.  pc is the position in the call,
\* running and r its locals, target its argument, s the curve synthesis is
\* writing, pending the stores the call has still to make.
NoSetTarget ==
    [pc |-> "idle", running |-> FALSE, target |-> 0, r |-> "",
     s |-> ZeroCurve, pending |-> {}]

\* The actuators the follower holds a handle of.
Handles(f) ==
    IF kind = "axis" THEN {f.ctrl}
    ELSE {f.items[i].ctrl : i \in 1..f.item_count}

MotorsAtRest == [h \in Motors |-> [angle |-> 0, velocity |-> 0, ref |-> 0]]

Init ==
    /\ kind \in {"axis", "group"}
    /\ config \in IF kind = "axis"
                  THEN {c \in AxisConfigs : c.update_interval # 0}
                  ELSE {c \in GroupConfigs : c.update_interval # 0}
    /\ follower = IF kind = "axis"
                  THEN SCurveTraj_Axis_Init(ZeroAxis, config)
                  ELSE SCurveTraj_Group_Init(ZeroGroup, config)
    /\ motor = MotorsAtRest
    /\ call = Called("Init", config.update_interval, "", 0, NoArgs)
    /\ inflight = NoSetTarget

\* The plant: an actuator the follower drives reports a new position and
\* velocity.
MotorMove(h, a, v) ==
    /\ h \in Handles(follower)
    /\ motor' = [motor EXCEPT ![h].angle = a, ![h].velocity = v]
    /\ call' = Called("MotorMove", 0, "", 0, NoArgs)
    /\ UNCHANGED <<kind, follower, config, inflight>>

Axis_Init(cfg) ==
    /\ kind = "axis"
    /\ follower' = SCurveTraj_Axis_Init(follower, cfg)
    /\ config' = IF cfg.update_interval = 0 THEN config ELSE cfg
    /\ call' = Called("Init", cfg.update_interval, "", 0, NoArgs)
    /\ UNCHANGED <<kind, motor, inflight>>

Axis_Update ==
    /\ kind = "axis"
    /\ follower.running => follower.now + follower.update_interval <= MaxNow
    /\ LET out == SCurveTraj_Axis_Update(follower, motor)
       IN follower' = out.f /\ motor' = out.m
    /\ call' = Called("Update", 0, "", 0, NoArgs)
    /\ UNCHANGED <<kind, config, inflight>>

Axis_ResetAll ==
    /\ kind = "axis"
    /\ LET out == SCurveTraj_Axis_ResetAll(follower, motor)
       IN follower' = out.f /\ motor' = out.m
    /\ call' = Called("ResetAll", 0, "", 0, NoArgs)
    /\ UNCHANGED <<kind, config, inflight>>

Axis_Stop ==
    /\ kind = "axis"
    /\ LET out == SCurveTraj_Axis_Stop(follower, motor)
       IN follower' = out.f /\ motor' = out.m
    /\ call' = Called("Stop", 0, "", 0, NoArgs)
    /\ UNCHANGED <<kind, config, inflight>>

Axis_SetTarget(target) ==
    /\ kind = "axis"
    /\ \E out \in SCurveTraj_Axis_SetTarget(follower, motor, target) :
          /\ follower' = out.f
          /\ motor' = out.m
          /\ call' = Called("SetTarget", 0, out.r, 0, out.args)
    /\ UNCHANGED <<kind, config, inflight>>

\* Mutant: the estimate is synthesized into the follower's own curve instead
\* of the local temps.
Mut_Axis_EstimateDuration_InPlace(target) ==
    /\ kind = "axis"
    /\ \E out \in SCurveTraj_Axis_EstimateDuration(follower, motor, target) :
          /\ call' = Called("EstimateDuration", 0, out.r, out.dur, out.args)
          /\ follower' = [follower EXCEPT !.s =
                             PlannedCurve(out.args.xs, out.args.xe, out.args.as,
                                          out.args.vm, out.args.am)]
    /\ UNCHANGED <<kind, motor, config, inflight>>

Axis_EstimateDuration(target) ==
    /\ kind = "axis"
    /\ \E out \in SCurveTraj_Axis_EstimateDuration(follower, motor, target) :
          call' = Called("EstimateDuration", 0, out.r, out.dur, out.args)
    /\ UNCHANGED <<kind, follower, motor, config, inflight>>

Group_Init(cfg) ==
    /\ kind = "group"
    /\ follower' = SCurveTraj_Group_Init(follower, cfg)
    /\ config' = IF cfg.update_interval = 0 THEN config ELSE cfg
    /\ call' = Called("Init", cfg.update_interval, "", 0, NoArgs)
    /\ UNCHANGED <<kind, motor, inflight>>

Group_Update ==
    /\ kind = "group"
    /\ follower.running => follower.now + follower.update_interval <= MaxNow
    /\ LET out == SCurveTraj_Group_Update(follower, motor)
       IN follower' = out.f /\ motor' = out.m
    /\ call' = Called("Update", 0, "", 0, NoArgs)
    /\ UNCHANGED <<kind, config, inflight>>

Group_ResetAll ==
    /\ kind = "group"
    /\ LET out == SCurveTraj_Group_ResetAll(follower, motor)
       IN follower' = out.f /\ motor' = out.m
    /\ call' = Called("ResetAll", 0, "", 0, NoArgs)
    /\ UNCHANGED <<kind, config, inflight>>

Group_Stop ==
    /\ kind = "group"
    /\ LET out == SCurveTraj_Group_Stop(follower, motor)
       IN follower' = out.f /\ motor' = out.m
    /\ call' = Called("Stop", 0, "", 0, NoArgs)
    /\ UNCHANGED <<kind, config, inflight>>

Group_SetTarget(target) ==
    /\ kind = "group"
    /\ \E out \in SCurveTraj_Group_SetTarget(follower, motor, target) :
          /\ follower' = out.f
          /\ motor' = out.m
          /\ call' = Called("SetTarget", 0, out.r, 0, out.args)
    /\ UNCHANGED <<kind, config, inflight>>

Group_EstimateDuration(target) ==
    /\ kind = "group"
    /\ \E out \in SCurveTraj_Group_EstimateDuration(follower, motor, target) :
          call' = Called("EstimateDuration", 0, out.r, out.dur, out.args)
    /\ UNCHANGED <<kind, follower, motor, config, inflight>>

Next ==
    \/ \E h \in Motors, a \in Angles, v \in Velocities : MotorMove(h, a, v)
    \/ \E cfg \in AxisConfigs : Axis_Init(cfg)
    \/ Axis_Update
    \/ Axis_ResetAll
    \/ Axis_Stop
    \/ \E target \in Targets : Axis_SetTarget(target)
    \/ \E target \in Targets : Axis_EstimateDuration(target)
    \/ \E cfg \in GroupConfigs : Group_Init(cfg)
    \/ Group_Update
    \/ Group_ResetAll
    \/ Group_Stop
    \/ \E target \in Targets : Group_SetTarget(target)
    \/ \E target \in Targets : Group_EstimateDuration(target)

Spec == Init /\ [][Next]_vars

\* The follower is constructed once and then only operated: every call
\* except a second Init.
NextOperate ==
    \/ \E h \in Motors, a \in Angles, v \in Velocities : MotorMove(h, a, v)
    \/ Axis_Update
    \/ Axis_ResetAll
    \/ Axis_Stop
    \/ \E target \in Targets : Axis_SetTarget(target)
    \/ \E target \in Targets : Axis_EstimateDuration(target)
    \/ Group_Update
    \/ Group_ResetAll
    \/ Group_Stop
    \/ \E target \in Targets : Group_SetTarget(target)
    \/ \E target \in Targets : Group_EstimateDuration(target)

SpecOperate == Init /\ [][NextOperate]_vars

\* The group follower constructed with any item count Init takes, the
\* count 0 included.
InitAnyCount ==
    /\ kind = "group"
    /\ config \in {c \in GroupConfigsAnyCount : c.update_interval # 0}
    /\ follower = SCurveTraj_Group_Init(ZeroGroup, config)
    /\ motor = MotorsAtRest
    /\ call = Called("Init", config.update_interval, "", 0, NoArgs)
    /\ inflight = NoSetTarget

NextAnyCount ==
    \/ \E h \in Motors, a \in Angles, v \in Velocities : MotorMove(h, a, v)
    \/ \E cfg \in GroupConfigsAnyCount : Group_Init(cfg)
    \/ Group_Update
    \/ Group_ResetAll
    \/ Group_Stop
    \/ \E target \in Targets : Group_SetTarget(target)
    \/ \E target \in Targets : Group_EstimateDuration(target)

SpecAnyCount == InitAnyCount /\ [][NextAnyCount]_vars

----------------------------------------------------------------------------
(* SetTarget taken statement by statement, with whole Update calls (and    *)
(* the actuators moving) in between.                                       *)

\* axis_s_curve_init / group_s_curve_init on the follower's own curve
SetTarget_s_curve_init(f, m, running, target) ==
    IF kind = "axis"
    THEN axis_s_curve_init(f.s, f, m, running, target)
    ELSE group_s_curve_init(f.s, f, m, running, target)

SetTarget_StopOf(f, m) ==
    IF kind = "axis"
    THEN SCurveTraj_Axis_Stop(f, m)
    ELSE SCurveTraj_Group_Stop(f, m)

\* A curve object caught while synthesis is writing new over old.
TornCurve(old, new) == [new EXCEPT !.total_time = old.total_time, !.xs = old.xs]

SetTargetStep == Called("SetTargetStep", 0, "", 0, NoArgs)

\* const bool running = follower->running;
SetTarget_Capture(target) ==
    /\ inflight.pc = "idle"
    /\ inflight' = [NoSetTarget EXCEPT !.pc = "captured",
                                       !.running = follower.running,
                                       !.target = target]
    /\ call' = SetTargetStep
    /\ UNCHANGED <<kind, follower, motor, config>>

\* Mutant: the call does not clear running before synthesis.
Mut_SetTarget_KeepRunning ==
    /\ inflight.pc = "captured"
    /\ inflight' = [inflight EXCEPT !.pc = "cleared"]
    /\ call' = SetTargetStep
    /\ UNCHANGED <<kind, follower, motor, config>>

\* follower->running = false;
SetTarget_ClearRunning ==
    /\ inflight.pc = "captured"
    /\ follower' = [follower EXCEPT !.running = FALSE]
    /\ inflight' = [inflight EXCEPT !.pc = "cleared"]
    /\ call' = SetTargetStep
    /\ UNCHANGED <<kind, motor, config>>

\* The call of the synthesis helper: its arguments are evaluated and the
\* library starts writing follower->s.
SetTarget_SynthesisBegin ==
    /\ inflight.pc = "cleared"
    /\ LET res == SetTarget_s_curve_init(follower, motor, inflight.running,
                                         inflight.target)
       IN \E s2 \in res.s :
             /\ follower' = [follower EXCEPT !.s = TornCurve(follower.s, s2)]
             /\ inflight' = [inflight EXCEPT !.pc = "writing",
                                             !.r = res.r, !.s = s2]
    /\ call' = SetTargetStep
    /\ UNCHANGED <<kind, motor, config>>

\* The helper returns: the curve is written and r holds the result.  The
\* stores that follow, follower->now = 0 and (on Success) follower->running
\* = true, are stores to plain fields with no call between them.
SetTarget_SynthesisEnd ==
    /\ inflight.pc = "writing"
    /\ follower' = [follower EXCEPT !.s = inflight.s]
    /\ inflight' = [inflight EXCEPT
                       !.pc = "storing",
                       !.pending = IF inflight.r = S_CURVE_SUCCESS
                                   THEN {"now", "running"} ELSE {"now"}]
    /\ call' = SetTargetStep
    /\ UNCHANGED <<kind, motor, config>>

\* The call after one of its pending stores: with none left on the Success
\* path it returns r, and is no longer in progress.
SetTarget_Stored(pending) ==
    IF pending = {} /\ inflight.r = S_CURVE_SUCCESS
    THEN /\ inflight' = NoSetTarget
         /\ call' = Called("SetTarget", 0, inflight.r, 0, NoArgs)
    ELSE /\ inflight' = [inflight EXCEPT !.pending = pending]
         /\ call' = SetTargetStep

\* follower->now = 0;
SetTarget_StoreNow ==
    /\ inflight.pc = "storing"
    /\ "now" \in inflight.pending
    /\ follower' = [follower EXCEPT !.now = 0]
    /\ SetTarget_Stored(inflight.pending \ {"now"})
    /\ UNCHANGED <<kind, motor, config>>

\* follower->running = true;  The build may have put this store before the
\* store to now: the two are independent and the fields are not volatile.
SetTarget_StoreRunning ==
    /\ inflight.pc = "storing"
    /\ "running" \in inflight.pending
    /\ follower' = [follower EXCEPT !.running = TRUE]
    /\ SetTarget_Stored(inflight.pending \ {"running"})
    /\ UNCHANGED <<kind, motor, config>>

\* else SCurveTraj_Axis_Stop(follower) / SCurveTraj_Group_Stop(follower);
\* return r;
SetTarget_Stop ==
    /\ inflight.pc = "storing"
    /\ inflight.pending = {}
    /\ inflight.r # S_CURVE_SUCCESS
    /\ LET out == SetTarget_StopOf(follower, motor)
       IN follower' = out.f /\ motor' = out.m
    /\ inflight' = NoSetTarget
    /\ call' = Called("SetTarget", 0, inflight.r, 0, NoArgs)
    /\ UNCHANGED <<kind, config>>

NextInterleaved ==
    \/ \E h \in Motors, a \in Angles, v \in Velocities : MotorMove(h, a, v)
    \/ Axis_Update
    \/ Group_Update
    \/ \E target \in Targets : SetTarget_Capture(target)
    \/ SetTarget_ClearRunning
    \/ SetTarget_SynthesisBegin
    \/ SetTarget_SynthesisEnd
    \/ SetTarget_StoreNow
    \/ SetTarget_StoreRunning
    \/ SetTarget_Stop

\* The interleaving does not depend on the number of items: the groups here
\* have one.
InitInterleaved ==
    /\ kind \in {"axis", "group"}
    /\ config \in IF kind = "axis"
                  THEN {c \in AxisConfigs : c.update_interval # 0}
                  ELSE {c \in GroupConfigs :
                           c.update_interval # 0 /\ c.item_count = 1}
    /\ follower = IF kind = "axis"
                  THEN SCurveTraj_Axis_Init(ZeroAxis, config)
                  ELSE SCurveTraj_Group_Init(ZeroGroup, config)
    /\ motor = MotorsAtRest
    /\ call = Called("Init", config.update_interval, "", 0, NoArgs)
    /\ inflight = NoSetTarget

SpecInterleaved == InitInterleaved /\ [][NextInterleaved]_vars

\* The follower constructed from any config Init accepts, given a target
\* while idle and then ticked: Update is the periodic task, and no Stop,
\* ResetAll, Init or further SetTarget reaches a running follower.  Elapsed
\* time is the follower's, not an item's: the groups here have one item.
InitTicking ==
    /\ kind \in {"axis", "group"}
    /\ config \in IF kind = "axis"
                  THEN {c \in AxisConfigs \cup {NegativeAxisConfig} :
                           c.update_interval # 0}
                  ELSE {c \in GroupConfigs \cup {NegativeGroupConfig} :
                           c.update_interval # 0 /\ c.item_count = 1}
    /\ follower = IF kind = "axis"
                  THEN SCurveTraj_Axis_Init(ZeroAxis, config)
                  ELSE SCurveTraj_Group_Init(ZeroGroup, config)
    /\ motor = MotorsAtRest
    /\ call = Called("Init", config.update_interval, "", 0, NoArgs)
    /\ inflight = NoSetTarget

Axis_FirstTarget(target) == ~follower.running /\ Axis_SetTarget(target)

Group_FirstTarget(target) == ~follower.running /\ Group_SetTarget(target)

\* The elapsed times the model follows a ticking follower to: up to the end
\* of its curve whatever that is, and within MaxNow of 0 otherwise.
TickInRange ==
    follower.running =>
       LET now == follower.now + follower.update_interval
       IN /\ now >= -MaxNow
          /\ SCurveTraj_isFinished(follower) => now <= MaxNow

Axis_Tick ==
    /\ kind = "axis"
    /\ TickInRange
    /\ LET out == SCurveTraj_Axis_Update(follower, motor)
       IN follower' = out.f /\ motor' = out.m
    /\ call' = Called("Update", 0, "", 0, NoArgs)
    /\ UNCHANGED <<kind, config, inflight>>

Group_Tick ==
    /\ kind = "group"
    /\ TickInRange
    /\ LET out == SCurveTraj_Group_Update(follower, motor)
       IN follower' = out.f /\ motor' = out.m
    /\ call' = Called("Update", 0, "", 0, NoArgs)
    /\ UNCHANGED <<kind, config, inflight>>

NextTicking ==
    \/ \E h \in Motors, a \in Angles, v \in Velocities : MotorMove(h, a, v)
    \/ \E target \in Targets : Axis_FirstTarget(target)
    \/ \E target \in Targets : Group_FirstTarget(target)
    \/ Axis_Tick
    \/ Group_Tick

\* Update runs on every tick of the periodic task: a tick that can be taken
\* is not put off for ever.
SpecTicking ==
    /\ InitTicking
    /\ [][NextTicking]_vars
    /\ WF_vars(Axis_Tick)
    /\ WF_vars(Group_Tick)

----------------------------------------------------------------------------
(* Properties *)

\* The last call was SetTarget / EstimateDuration and synthesis, given the
\* arguments recorded, is infeasible (returns Failure).
SynthesisFails ==
    ~SCurve_Feasible(call.args.vs, call.args.as, call.args.vm, call.args.am,
                     call.args.jm)

\* Every actuator of the follower holds the zero velocity command.
AllCommandsZero == \A h \in Handles(follower) : motor[h].ref = 0

\* C1: for both followers, when SetTarget's curve synthesis returns Failure,
\* then on return SetTarget has returned the Failure code, running is false
\* and the last velocity command of every actuator of the follower is zero,
\* whatever the running flag was before the call.
C1_FailStop ==
    (call.op = "SetTarget" /\ SynthesisFails) =>
        /\ call.r = S_CURVE_FAILED
        /\ ~follower.running
        /\ AllCommandsZero

\* C1 witness: a group SetTarget failed on a follower that was running at
\* entry (the start acceleration it passed on is the running curve's).
C1_Witness ==
    /\ kind = "group"
    /\ follower.item_count = 2
    /\ call.op = "SetTarget"
    /\ call.r = S_CURVE_FAILED
    /\ call.args.as # 0

\* The total duration of the disposable curve synthesized from args.
DisposableDuration(args) ==
    PlannedCurve(args.xs, args.xe, args.as, args.vm, args.am).total_time

\* C2: EstimateDuration never mutates: across every EstimateDuration call the
\* follower object (curve, elapsed time, running flag, corrector state) and
\* the actuators (their last command) are identical before and after; it
\* returns the disposable curve's total duration when synthesis succeeds and
\* -1 when it fails.
C2_EstimatePure ==
    [][call'.op = "EstimateDuration" =>
          /\ follower' = follower
          /\ motor' = motor
          /\ call'.dur = IF call'.r = S_CURVE_SUCCESS
                         THEN DisposableDuration(call'.args)
                         ELSE -1
          /\ (call'.r = S_CURVE_SUCCESS) <=> ~SynthesisFails']_vars

\* C2 witness: an estimate on a running follower with time elapsed and a
\* command outstanding succeeded with a positive duration.
C2_Witness ==
    /\ call.op = "EstimateDuration"
    /\ call.r = S_CURVE_SUCCESS
    /\ call.dur > 0
    /\ follower.running
    /\ follower.now > 0
    /\ ~AllCommandsZero

\* C3: the finished predicate is true exactly when running is true and
\* elapsed >= the curve's total duration; right after Stop, ResetAll or a
\* failed SetTarget it is false, also when elapsed >= total duration.
C3_FinishedIff ==
    /\ SCurveTraj_isFinished(follower) <=>
          (follower.running /\ follower.now >= follower.s.total_time)
    /\ (\/ call.op \in {"Stop", "ResetAll"}
        \/ (call.op = "SetTarget" /\ call.r = S_CURVE_FAILED))
          => ~SCurveTraj_isFinished(follower)

\* C3 witness: Stop was called with elapsed >= total duration of a real curve.
C3_Witness ==
    /\ call.op = "Stop"
    /\ follower.s.total_time > 0
    /\ follower.now >= follower.s.total_time

\* The finished predicate of the follower, now.
Finished == SCurveTraj_isFinished(follower)

\* The last call was a SetTarget that returned Success.
TargetAccepted == call.op = "SetTarget" /\ call.r = S_CURVE_SUCCESS

\* What C4 says of the ticks: on an Update tick the predicate turns true only
\* when elapsed first reaches the total duration, and does so at that tick;
\* Update and EstimateDuration never turn it false.
FinishedAtFirstTick ==
    /\ (call'.op = "Update" /\ ~Finished /\ Finished') =>
          /\ follower.now < follower.s.total_time
          /\ follower'.now >= follower'.s.total_time
    /\ (call'.op = "Update" /\ follower.running
           /\ follower'.now >= follower.s.total_time) => Finished'
    /\ (call'.op \in {"Update", "EstimateDuration"} /\ Finished) => Finished'

\* C4 as claimed: after a successful SetTarget the finished predicate is
\* false before any tick has run, turns true at the first Update tick after
\* which elapsed >= total duration, stays true on every later tick, and turns
\* false again only through Stop, ResetAll or SetTarget.
C4_Original ==
    [][/\ TargetAccepted' => ~Finished'
       /\ FinishedAtFirstTick
       /\ (Finished /\ ~Finished') =>
             call'.op \in {"Stop", "ResetAll", "SetTarget"}]_vars

\* C4 as amended: a successful SetTarget returns with the finished predicate
\* already true exactly when the new curve's total duration is 0 (no tick has
\* run); otherwise it is false on return, turns true at the first Update tick
\* after which elapsed >= total duration and stays true on every later tick;
\* it turns false again only through Stop, ResetAll, SetTarget or a new Init.
C4_FinishedOnce ==
    [][/\ TargetAccepted' => (Finished' <=> follower'.s.total_time = 0)
       /\ FinishedAtFirstTick
       /\ (Finished /\ ~Finished') =>
             call'.op \in {"Stop", "ResetAll", "SetTarget", "Init"}]_vars

\* C4 witness: a tick ran on a follower that had already finished a curve of
\* positive duration, and it is still finished.
C4_Witness ==
    /\ call.op = "Update"
    /\ Finished
    /\ follower.s.total_time > 0
    /\ follower.now >= follower.s.total_time + follower.update_interval

\* The curve a SetTarget with the recorded arguments synthesizes on Success.
SynthesizedCurve(args) ==
    PlannedCurve(args.xs, args.xe, args.as, args.vm, args.am)

\* C5: running is true only if the most recent SetTarget returned Success,
\* the curve it synthesized is still the follower's curve and no Stop or
\* ResetAll ran since.  Step by step: running is true after a step only if
\* the step is a successful SetTarget that installed its curve, or running
\* was true before and the step is none of Stop, ResetAll, SetTarget and
\* leaves the curve alone; Update and EstimateDuration never change running.
C5_RunningOnlyByTarget ==
    [][/\ follower'.running =>
             \/ /\ TargetAccepted'
                /\ follower'.s = SynthesizedCurve(call'.args)
             \/ /\ follower.running
                /\ call'.op \notin {"Stop", "ResetAll", "SetTarget"}
                /\ follower'.s = follower.s
       /\ call'.op \in {"Update", "EstimateDuration"} =>
             follower'.running = follower.running]_vars

\* C5 witness: an axis follower is running, ticks after an accepted target.
C5_Witness ==
    /\ kind = "axis"
    /\ call.op = "Update"
    /\ follower.running
    /\ follower.now > 0

\* C6 as claimed: elapsed time is set to 0 when SetTarget returns Success and
\* by no other step: a SetTarget returning Failure, Stop, ResetAll, Update and
\* EstimateDuration never take a non-zero elapsed time to 0.
C6_Original ==
    [][/\ TargetAccepted' => follower'.now = 0
       /\ (/\ ~TargetAccepted'
           /\ call'.op \in {"SetTarget", "Stop", "ResetAll", "Update",
                            "EstimateDuration"}
           /\ follower.now # 0) => follower'.now # 0]_vars

\* C6 as amended: elapsed time is set to exactly 0 by every SetTarget call,
\* whether it returns Success or Failure, and by no other step after Init:
\* Stop, ResetAll and EstimateDuration leave it as it is and Update never
\* takes a non-zero elapsed time to 0.
C6_ResetByEverySetTarget ==
    [][/\ call'.op = "SetTarget" => follower'.now = 0
       /\ call'.op \in {"Stop", "ResetAll", "EstimateDuration"} =>
             follower'.now = follower.now
       /\ (call'.op = "Update" /\ follower.now # 0) => follower'.now # 0]_vars

\* C6 witness: a SetTarget failed on a follower that was running at entry, and
\* elapsed time is 0.
C6_Witness ==
    /\ kind = "axis"
    /\ call.op = "SetTarget"
    /\ call.r = S_CURVE_FAILED
    /\ call.args.as # 0
    /\ follower.now = 0

\* The last call was Init with update interval = 0.
InitRejected == call.op = "Init" /\ call.arg = 0

\* Nothing of the config is applied by the step: limits, update interval,
\* actuator handle(s), corrector(s) and elapsed time are unchanged.
ConfigNotApplied ==
    /\ follower'.v_max = follower.v_max
    /\ follower'.a_max = follower.a_max
    /\ follower'.j_max = follower.j_max
    /\ follower'.update_interval = follower.update_interval
    /\ follower'.now = follower.now
    /\ IF kind = "axis"
       THEN follower'.ctrl = follower.ctrl /\ follower'.pd = follower.pd
       ELSE follower'.items = follower.items
               /\ follower'.item_count = follower.item_count

\* C7 as claimed: Init with update interval = 0 leaves the follower with
\* running = false and applies nothing from the config, whatever the state of
\* the follower before the call.
C7_Original ==
    [][InitRejected' => (~follower'.running /\ ConfigNotApplied)]_vars

\* C7 as amended: Init with update interval = 0 changes nothing: it applies
\* nothing from the config and leaves running as it was, so the follower has
\* running = false after the call only if it had before; a follower that was
\* running is still running.
C7_InitRejectedNoOp ==
    [][InitRejected' =>
          /\ ConfigNotApplied
          /\ follower' = follower
          /\ motor' = motor]_vars

\* C7 witness: Init with update interval = 0 was called on a running
\* follower that had ticked.
C7_Witness ==
    /\ InitRejected
    /\ follower.running
    /\ follower.now > 0

\* The arithmetic mean of the values x[1] .. x[n] (exact in the model).
RECURSIVE SumOf(_, _)
SumOf(x, n) == IF n = 0 THEN 0 ELSE x[n] + SumOf(x, n - 1)
MeanOf(x, n) == SumOf(x, n) \div n

\* The measured position and velocity of the follower's actuator; for a
\* group, of its consensus point (the mean over its actuators).
MeasuredPosition ==
    IF kind = "axis" THEN motor[follower.ctrl].angle
    ELSE MeanOf([i \in 1..follower.item_count |->
                    motor[follower.items[i].ctrl].angle], follower.item_count)

MeasuredVelocity ==
    IF kind = "axis" THEN motor[follower.ctrl].velocity
    ELSE MeanOf([i \in 1..follower.item_count |->
                    motor[follower.items[i].ctrl].velocity], follower.item_count)

\* C8: every SetTarget call passes to curve synthesis the measured position
\* and velocity at call time (for a group: of the consensus point) as start
\* position and velocity; the start acceleration is the acceleration of the
\* curve in force before the call at the elapsed time before the call when
\* the follower was running at entry, and exactly 0 when it was not.
C8_StartState ==
    [][call'.op = "SetTarget" =>
          /\ call'.args.xs = MeasuredPosition
          /\ call'.args.vs = MeasuredVelocity
          /\ call'.args.as = IF follower.running
                             THEN SCurve_CalcA(follower.s, follower.now)
                             ELSE 0]_vars

\* C8 witness: an axis SetTarget passed on a non-zero start acceleration and
\* a non-zero measured position (a re-target in mid-motion).
C8_Witness ==
    /\ kind = "axis"
    /\ call.op = "SetTarget"
    /\ call.args.as # 0
    /\ call.args.xs # 0

\* The transient error-term state of every corrector of the follower.
Transients(f) ==
    IF kind = "axis" THEN <<PD_Transient(f.pd)>>
    ELSE [i \in 1..f.item_count |-> PD_Transient(f.items[i].pd)]

\* C9: Stop sets running = false, commands zero velocity to every actuator
\* of the follower and clears every corrector's transient state; the curve,
\* the elapsed time, the kinematic limits and the update interval are
\* unchanged.
C9_StopFrame ==
    [][call'.op = "Stop" =>
          /\ ~follower'.running
          /\ \A h \in Handles(follower) : motor'[h].ref = 0
          /\ \A i \in DOMAIN Transients(follower') :
                Transients(follower')[i] = <<0, 0, 0, 0>>
          /\ follower'.s = follower.s
          /\ follower'.now = follower.now
          /\ follower'.v_max = follower.v_max
          /\ follower'.a_max = follower.a_max
          /\ follower'.j_max = follower.j_max
          /\ follower'.update_interval = follower.update_interval]_vars

\* C9 witness: a two-item group was stopped in mid-curve.
C9_Witness ==
    /\ kind = "group"
    /\ follower.item_count = 2
    /\ call.op = "Stop"
    /\ follower.now > 0
    /\ follower.now < follower.s.total_time

\* The gain / limit parameters Init configured for corrector i.
ConfiguredGains(i) ==
    LET c == IF kind = "axis" THEN config.error_pd
             ELSE config.item_configs[i].error_pd
    IN <<c.Kp, c.Kd, c.abs_output_max>>

\* The gain / limit parameters corrector i holds.
HeldGains(i) ==
    IF kind = "axis" THEN PD_Gains(follower.pd)
    ELSE PD_Gains(follower.items[i].pd)

Correctors == IF kind = "axis" THEN {1} ELSE 1..follower.item_count

\* C10: the corrector's gain parameters are immutable for the lifetime of a
\* follower: after any sequence of Stop, ResetAll, SetTarget and Update
\* following a valid Init, each corrector's gain / limit parameters equal the
\* values configured at Init.
C10_GainsImmutable ==
    \A i \in Correctors : HeldGains(i) = ConfiguredGains(i)

\* The corrector of item i, and the actuator handle it corrects (an axis
\* follower has the one item 1).
CorrectorOf(f, i) == IF kind = "axis" THEN f.pd ELSE f.items[i].pd
HandleOf(f, i) == IF kind = "axis" THEN f.ctrl ELSE f.items[i].ctrl

\* C11: ResetAll has the full effect of Stop (running = false, zero velocity
\* command to every actuator, corrector transient state cleared: the follower
\* and the commands are what Stop would leave) and additionally leaves the
\* curve as the empty / zero profile and every actuator's position reference
\* at zero; after ResetAll every actuator's last command is zero.
C11_ResetAll ==
    [][call'.op = "ResetAll" =>
          LET stop == IF kind = "axis"
                      THEN SCurveTraj_Axis_Stop(follower, motor)
                      ELSE SCurveTraj_Group_Stop(follower, motor)
          IN /\ follower' = [stop.f EXCEPT !.s = ZeroCurve]
             /\ ~follower'.running
             /\ \A i \in Correctors :
                   PD_Transient(CorrectorOf(follower', i)) = <<0, 0, 0, 0>>
             /\ \A h \in Motors :
                   motor'[h] = IF h \in Handles(follower)
                               THEN [stop.m[h] EXCEPT !.angle = 0]
                               ELSE motor[h]
             /\ \A h \in Handles(follower) :
                   motor'[h].ref = 0 /\ motor'[h].angle = 0]_vars

\* C11 witness: ResetAll was called on a two-item group; its curve had been a
\* planned one (the correctors still hold what the last tick left only if
\* ResetAll did not clear them: they are clear, as is the curve).
C11_Witness ==
    /\ kind = "group"
    /\ follower.item_count = 2
    /\ call.op = "ResetAll"
    /\ follower.now > 0
    /\ follower.s = ZeroCurve

\* C12: Update is a no-op when running is false.  When running is true one
\* Update advances elapsed by exactly one update interval (also after the
\* curve has finished), sets each corrector's reference to the curve position
\* at the new elapsed time and its feedback to its actuator's measured
\* position, and commands each actuator the velocity feedforward(new elapsed)
\* + corrector output, in the actuator's unit (rpm).
C12_Update ==
    [][call'.op = "Update" =>
          IF ~follower.running
          THEN follower' = follower /\ motor' = motor
          ELSE /\ follower'.now = follower.now + follower.update_interval
               /\ follower'.running
               /\ follower'.s = follower.s
               /\ \A i \in Correctors :
                     LET pd == CorrectorOf(follower', i)
                     IN /\ pd.ref = SCurve_CalcX(follower.s, follower'.now)
                        /\ pd.fdb = motor[HandleOf(follower, i)].angle
                        /\ motor'[HandleOf(follower, i)].ref =
                              DPS2RPM(SCurve_CalcV(follower.s, follower'.now)
                                      + pd.output)
               /\ \A h \in Motors \ Handles(follower) : motor'[h] = motor[h]
               /\ \A h \in Motors :
                     /\ motor'[h].angle = motor[h].angle
                     /\ motor'[h].velocity = motor[h].velocity]_vars

\* C12 witness: a tick ran on a follower that had already finished, advanced
\* elapsed time again and left a non-zero command.
C12_Witness ==
    /\ call.op = "Update"
    /\ follower.running
    /\ follower.s.total_time > 0
    /\ follower.now > follower.s.total_time + follower.update_interval
    /\ ~AllCommandsZero

\* C13: in one tick of the group follower every item gets the identical
\* feedforward velocity and the identical corrector reference, each item's
\* corrector feedback is that item's own measured position, every item's
\* command is feedforward + its correction, and two items' commands differ
\* only by the difference of their corrector outputs (6 deg/s = 1 rpm).
C13_GroupTick ==
    [][(kind = "group" /\ call'.op = "Update" /\ follower.running) =>
          \E ff \in {SCurve_CalcV(follower.s, follower'.now)} :
          \E target \in {SCurve_CalcX(follower.s, follower'.now)} :
             /\ \A i \in 1..follower.item_count :
                   LET it == follower'.items[i]
                   IN /\ it.pd.ref = target
                      /\ it.pd.fdb = motor[it.ctrl].angle
                      /\ it.pd.output =
                            PD_Calculate([follower.items[i].pd EXCEPT
                                             !.ref = target,
                                             !.fdb = motor[it.ctrl].angle]).output
                      /\ 6 * motor'[it.ctrl].ref = ff + it.pd.output
             /\ \A i, j \in 1..follower.item_count :
                   6 * (motor'[follower.items[i].ctrl].ref
                        - motor'[follower.items[j].ctrl].ref)
                      = follower'.items[i].pd.output
                        - follower'.items[j].pd.output]_vars

\* C13 witness: after a group tick the two items, at distinct measured
\* positions, hold the same reference and distinct commands.
C13_Witness ==
    /\ kind = "group"
    /\ follower.item_count = 2
    /\ call.op = "Update"
    /\ follower.running
    /\ follower.items[1].pd.ref = follower.items[2].pd.ref
    /\ follower.items[1].pd.fdb # follower.items[2].pd.fdb
    /\ motor[1].ref # motor[2].ref

\* C15: when EstimateDuration(target) is called and then SetTarget(target)
\* with nothing in between, both hand curve synthesis the same arguments
\* (start position, start velocity, start acceleration, limits, target);
\* EstimateDuration has returned -1 exactly when SetTarget returns Failure,
\* and otherwise the total duration of the curve SetTarget installs.
C15_EstimateAgrees ==
    [][(/\ call.op = "EstimateDuration"
        /\ call'.op = "SetTarget"
        /\ call'.args.xe = call.args.xe) =>
          /\ call'.args = call.args
          /\ (call.dur = -1) <=> (call'.r # S_CURVE_SUCCESS)
          /\ (call'.r = S_CURVE_SUCCESS) =>
                /\ call.dur = follower'.s.total_time
                /\ follower'.running]_vars

\* C15 witness: an estimate was taken in mid-motion (the start acceleration
\* handed to synthesis is not 0) and returned a positive duration; the
\* SetTarget of the same target can follow at once.
C15_Witness ==
    /\ call.op = "EstimateDuration"
    /\ follower.running
    /\ call.args.as # 0
    /\ call.r = S_CURVE_SUCCESS
    /\ call.dur > 0

\* The elapsed times at which the step being taken evaluates the follower's
\* curve: Update evaluates velocity and position at the elapsed time it has
\* just stored; SetTarget and EstimateDuration evaluate the acceleration at
\* the current elapsed time when the follower is running.
EvaluatedAt ==
    IF call'.op = "Update" /\ follower.running
    THEN {follower'.now}
    ELSE IF call'.op \in {"SetTarget", "EstimateDuration"} /\ follower.running
         THEN {follower.now}
         ELSE {}

\* C16 as stated: the follower evaluates its curve only at elapsed times
\* within [0, total duration]: no Update, SetTarget or EstimateDuration
\* evaluates it at an elapsed time greater than its total duration.
C16_Original ==
    [][\A t \in EvaluatedAt : 0 <= t /\ t <= follower.s.total_time]_vars

\* C16, amended: the follower evaluates its curve only at elapsed times >= 0.
\* A tick of a follower that has not finished evaluates at a time in
\* (0, total duration + update interval); every tick of a follower that has
\* finished evaluates at a time greater than total duration, and SetTarget /
\* EstimateDuration on a running follower evaluate at its elapsed time as it
\* stands, beyond total duration or not.
C16_EvaluationTimes ==
    [][\A t \in EvaluatedAt :
          /\ 0 <= t
          /\ call'.op = "Update" =>
                /\ t = follower.now + follower.update_interval
                /\ 0 < t
                /\ ~Finished => t < follower.s.total_time + follower.update_interval
                /\ Finished => t > follower.s.total_time
          /\ call'.op # "Update" => t = follower.now]_vars

\* C16 witness: the last tick ran on a follower that had already finished a
\* curve of positive duration, so it evaluated the curve beyond its end.
C16_Witness ==
    /\ call.op = "Update"
    /\ Finished
    /\ follower.s.total_time > 0
    /\ follower.now - follower.update_interval >= follower.s.total_time

\* C18: starting from a valid Init with every actuator's command at zero,
\* over any sequence of SetTarget (either outcome), Update, Stop, ResetAll
\* and EstimateDuration, whenever running is false the most recent command
\* of every actuator of the follower is zero, and a command other than zero
\* is only ever issued by an Update executed while running is true.
C18_IdleCommandsZero ==
    [][/\ ~follower'.running => AllCommandsZero'
       /\ \A h \in Motors :
             (motor'[h].ref # motor[h].ref /\ motor'[h].ref # 0) =>
                (call'.op = "Update" /\ follower.running /\ h \in Handles(follower))
      ]_vars

\* C18 witness: a two-item group that was ticking on an accepted curve has
\* been stopped by a SetTarget that failed; it is idle and both actuators
\* hold the command zero.
C18_Witness ==
    /\ kind = "group"
    /\ follower.item_count = 2
    /\ call.op = "SetTarget"
    /\ call.r # S_CURVE_SUCCESS
    /\ call.args.as # 0
    /\ ~follower.running
    /\ AllCommandsZero

\* v is the arithmetic mean of x[1] .. x[n]; no value is the mean of nothing.
IsMeanOf(v, x, n) == n > 0 /\ n * v = SumOf(x, n)

\* C14: for every item count the group can be constructed with and every
\* combination of measured values, group SetTarget and EstimateDuration pass
\* to curve synthesis, as start position and start velocity, the arithmetic
\* mean of the positions and the mean of the velocities of all N actuators.
C14_MeanStart ==
    [][(kind = "group" /\ call'.op \in {"SetTarget", "EstimateDuration"}) =>
          /\ IsMeanOf(call'.args.xs,
                      [i \in 1..follower.item_count |->
                          motor[follower.items[i].ctrl].angle],
                      follower.item_count)
          /\ IsMeanOf(call'.args.vs,
                      [i \in 1..follower.item_count |->
                          motor[follower.items[i].ctrl].velocity],
                      follower.item_count)]_vars

\* C17: for a follower initialized with a config that Init accepts, after a
\* SetTarget that returned Success, if Update is invoked on every tick and no
\* Stop, ResetAll or SetTarget intervenes, the finished predicate eventually
\* becomes true.
C17_EventuallyFinished == TargetAccepted ~> Finished

\* The same with the update interval greater than 0.
C17_PositiveInterval ==
    (TargetAccepted /\ follower.update_interval > 0) ~> Finished

\* A SetTarget call is between two of its steps.
SetTargetInProgress == inflight.pc # "idle"

\* The follower's curve is the one the in-progress SetTarget has synthesized
\* with Success, completely written.
NewCurveInstalled ==
    /\ inflight.pc = "storing"
    /\ inflight.r = S_CURVE_SUCCESS
    /\ follower.s = inflight.s

====
